---- MODULE Spec2Model ----
(***************************************************************************)
(* The LTTB and ASAP aggregates of extension/src/lttb.rs and               *)
(* extension/src/asap.rs.                                                  *)
(*                                                                         *)
(* Values (f64 in the source) are drawn from small integers, which f64     *)
(* represents exactly; the triangle area is kept exact by scaling it with  *)
(* 2 * (size of the next bucket), a positive factor that is the same for   *)
(* every candidate of one bucket.  Bucket bounds floor(i * every) are      *)
(* computed in exact arithmetic; the f64 product of the source floors to   *)
(* the same integer for every series of fewer than 17 points.              *)
(* The values of a normal series are abstracted to their number.           *)
(* Resolutions are non-negative: a negative resolution is rejected by      *)
(* lttb_trans, and in asap_final `2 * state.resolution as usize` overflows *)
(* for it.  Timestamps are small: the i64 sums and products do not         *)
(* overflow.  find_downsample_interval asserts series.ordered, which holds *)
(* of every series it is given here.                                       *)
(***************************************************************************)
EXTENDS Integers, Sequences, FiniteSets, TLC

\* Bounds of the aggregate specification (Spec).
MaxRows == 4
MaxAsapRows == 3
MaxTs == 3
MaxRes == 3
\* Bounds of the function specification (SpecFn).
FnMaxLen == 5
FnMaxTs == 4

Ts == 0 .. MaxTs
FnTs == -1 .. FnMaxTs
Vals == {0, 1}
FnVals == {0, 10}
Resolutions == 0 .. MaxRes

VARIABLES agg, state, last, err, out, pc

vars == <<agg, state, last, err, out, pc>>

\* Option<T>
None == << >>
Some(x) == <<x>>

TSPoint(ts, val) == [ts |-> ts, val |-> val]

NoError == ""
ErrResolution == "resolution must be greater than 2"
ErrInsufficient == "Not enough data to generate a smoothed representation"
ErrDivZero == "attempt to divide by zero"
ErrIndex == "index out of bounds"
ErrUnwrap == "called Option::unwrap() on a None value"

Abs(x) == IF x < 0 THEN 0 - x ELSE x

\* Rust's integer division: truncates toward zero (b # 0).
TruncDiv(a, b) ==
    IF (a >= 0) = (b > 0) THEN Abs(a) \div Abs(b) ELSE 0 - (Abs(a) \div Abs(b))

At(data, idx) == data[idx + 1]

(***************************************************************************)
(* The explicit series of the time_series crate.                           *)
(***************************************************************************)
new_explicit_series == [ordered |-> TRUE, points |-> << >>]

add_point(series, p) ==
    [ordered |-> series.points = << >>
                 \/ (series.ordered /\ p.ts >= series.points[Len(series.points)].ts),
     points |-> Append(series.points, p)]

RECURSIVE InsertByTs(_, _)
InsertByTs(sorted, p) ==
    IF sorted = << >> THEN <<p>>
    ELSE IF Head(sorted).ts <= p.ts
         THEN <<Head(sorted)>> \o InsertByTs(Tail(sorted), p)
         ELSE <<p>> \o sorted

RECURSIVE SortByTs(_)
SortByTs(points) ==
    IF points = << >> THEN << >>
    ELSE InsertByTs(SortByTs(SubSeq(points, 1, Len(points) - 1)), points[Len(points)])

sort(series) ==
    IF series.ordered THEN series
    ELSE [ordered |-> TRUE, points |-> SortByTs(series.points)]

(***************************************************************************)
(* lttb                                                                    *)
(***************************************************************************)
\* ((i as f64) * every) as usize, every = (len - 2) / (threshold - 2), without the + 1
BucketBoundNoOffset(i, len, threshold) == (i * (len - 2)) \div (threshold - 2)

\* ((i as f64) * every) as usize + 1, every = (len - 2) / (threshold - 2)
BucketBound(i, len, threshold) == (i * (len - 2)) \div (threshold - 2) + 1

RECURSIVE SumTs(_, _, _)
SumTs(data, from, to) ==
    IF from >= to THEN 0 ELSE At(data, from).ts + SumTs(data, from + 1, to)

RECURSIVE SumVal(_, _, _)
SumVal(data, from, to) ==
    IF from >= to THEN 0 ELSE At(data, from).val + SumVal(data, from + 1, to)

\* The point average of the bucket after bucket i; avg_y is sum_y / n.
NextBucketAvg(data, i, threshold) ==
    LET avg_range_start == BucketBound(i + 1, Len(data), threshold)
        end == BucketBound(i + 2, Len(data), threshold)
        avg_range_end == IF end >= Len(data) THEN Len(data) ELSE end
        avg_range_length == avg_range_end - avg_range_start
    IN [avg_x |-> TruncDiv(SumTs(data, avg_range_start, avg_range_end), avg_range_length),
        sum_y |-> SumVal(data, avg_range_start, avg_range_end),
        n |-> avg_range_length]

\* 2 * avg.n * area of the triangle (a, p, average of the next bucket).
TriangleArea(a, p, avg) ==
    Abs((a.ts - avg.avg_x) * (p.val - a.val) * avg.n
        - (a.ts - p.ts) * (avg.sum_y - a.val * avg.n))

RECURSIVE ScanBucketLastWins(_, _, _, _, _, _)
ScanBucketLastWins(data, a, avg, idx, range_to, best) ==
    IF idx >= range_to THEN best.next_a
    ELSE LET area == TriangleArea(At(data, a), At(data, idx), avg)
         IN ScanBucketLastWins(data, a, avg, idx + 1, range_to,
                               IF area >= best.max_area
                               THEN [max_area |-> area, next_a |-> idx]
                               ELSE best)

\* The loop over the current bucket: the running maximum and its index.
RECURSIVE ScanBucket(_, _, _, _, _, _)
ScanBucket(data, a, avg, idx, range_to, best) ==
    IF idx >= range_to THEN best.next_a
    ELSE LET area == TriangleArea(At(data, a), At(data, idx), avg)
         IN ScanBucket(data, a, avg, idx + 1, range_to,
                       IF area > best.max_area
                       THEN [max_area |-> area, next_a |-> idx]
                       ELSE best)

\* The loop over the buckets: the points sampled and the indices picked so far.
RECURSIVE LttbBuckets(_, _, _, _, _)
LttbBuckets(data, threshold, i, a, acc) ==
    IF i >= threshold - 2 THEN acc
    ELSE LET avg == NextBucketAvg(data, i, threshold)
             range_offs == BucketBound(i, Len(data), threshold)
             range_to == BucketBound(i + 1, Len(data), threshold)
             next_a == ScanBucket(data, a, avg, range_offs, range_to,
                                  [max_area |-> -1, next_a |-> range_offs])
         IN LttbBuckets(data, threshold, i + 1, next_a,
                        [sampled |-> Append(acc.sampled, At(data, next_a)),
                         picked |-> Append(acc.picked, next_a)])

LttbStart(data) == [sampled |-> <<At(data, 0)>>, picked |-> <<0>>]

\* threshold - 2 underflows for threshold = 1 < len: a panic where overflow is
\* checked, and a division by a zero avg_range_length where it wraps.
LttbSampled(data, threshold) ==
    IF threshold < 2 THEN [panic |-> TRUE, points |-> << >>]
    ELSE [panic |-> FALSE,
          points |-> Append(LttbBuckets(data, threshold, 0, 0, LttbStart(data)).sampled,
                            At(data, Len(data) - 1))]

lttb_no_zero_check(data, threshold) ==
    IF threshold >= Len(data) THEN [panic |-> FALSE, points |-> data]
    ELSE LttbSampled(data, threshold)

lttb_no_last_point(data, threshold) ==
    IF threshold >= Len(data) \/ threshold = 0 THEN [panic |-> FALSE, points |-> data]
    ELSE IF threshold < 2 THEN [panic |-> TRUE, points |-> << >>]
    ELSE [panic |-> FALSE,
          points |-> LttbBuckets(data, threshold, 0, 0, LttbStart(data)).sampled]

lttb(data, threshold) ==
    IF threshold >= Len(data) \/ threshold = 0 THEN [panic |-> FALSE, points |-> data]
    ELSE LttbSampled(data, threshold)

\* The indices lttb picks for the buckets 0 .. threshold - 3, after index 0.
LttbPicked(data, threshold) ==
    LttbBuckets(data, threshold, 0, 0, LttbStart(data)).picked

(***************************************************************************)
(* find_downsample_interval                                                *)
(***************************************************************************)
RECURSIVE InsertInt(_, _)
InsertInt(sorted, x) ==
    IF sorted = << >> THEN <<x>>
    ELSE IF Head(sorted) <= x THEN <<Head(sorted)>> \o InsertInt(Tail(sorted), x)
         ELSE <<x>> \o sorted

RECURSIVE SortInts(_)
SortInts(s) ==
    IF s = << >> THEN << >>
    ELSE InsertInt(SortInts(SubSeq(s, 1, Len(s) - 1)), s[Len(s)])

Diffs(points) ==
    SortInts([i \in 1 .. Len(points) - 1 |-> points[i + 1].ts - points[i].ts])

Range(points) == points[Len(points)].ts - points[1].ts

find_downsample_interval_untruncated(points, resolution) ==
    IF points = << >> THEN [err |-> ErrUnwrap, value |-> 0]
    ELSE IF resolution = 0 THEN [err |-> ErrDivZero, value |-> 0]
    ELSE [err |-> NoError, value |-> TruncDiv(Range(points), resolution)]

find_downsample_interval(points, resolution) ==
    IF points = << >> THEN [err |-> ErrUnwrap, value |-> 0]
    ELSE IF resolution = 0 THEN [err |-> ErrDivZero, value |-> 0]
    ELSE LET candidate == TruncDiv(Range(points), resolution)
             diffs == Diffs(points)
         IN IF diffs = << >> THEN [err |-> ErrIndex, value |-> 0]
            ELSE LET median == At(diffs, Len(diffs) \div 2)
                 IN IF median = 0 THEN [err |-> ErrDivZero, value |-> 0]
                    ELSE [err |-> NoError,
                          value |-> TruncDiv(candidate, median) * median]

(***************************************************************************)
(* lttb_trans, lttb_final                                                  *)
(***************************************************************************)
lttb_trans_validate_first(st, time, val, resolution) ==
    IF st = None /\ resolution <= 2 THEN [state |-> st, err |-> ErrResolution]
    ELSE IF val = None THEN [state |-> st, err |-> NoError]
    ELSE LET cur == IF st = None
                    THEN [series |-> new_explicit_series, resolution |-> resolution]
                    ELSE st[1]
         IN [state |-> Some([cur EXCEPT !.series = add_point(@, TSPoint(time, val[1]))]),
             err |-> NoError]

lttb_trans_accepts_two(st, time, val, resolution) ==
    IF val = None THEN [state |-> st, err |-> NoError]
    ELSE IF st = None /\ resolution < 2 THEN [state |-> st, err |-> ErrResolution]
    ELSE LET cur == IF st = None
                    THEN [series |-> new_explicit_series, resolution |-> resolution]
                    ELSE st[1]
         IN [state |-> Some([cur EXCEPT !.series = add_point(@, TSPoint(time, val[1]))]),
             err |-> NoError]

\* The state returned, or the error reported.
lttb_trans(st, time, val, resolution) ==
    IF val = None THEN [state |-> st, err |-> NoError]
    ELSE IF st = None /\ resolution <= 2 THEN [state |-> st, err |-> ErrResolution]
    ELSE LET cur == IF st = None
                    THEN [series |-> new_explicit_series, resolution |-> resolution]
                    ELSE st[1]
         IN [state |-> Some([cur EXCEPT !.series = add_point(@, TSPoint(time, val[1]))]),
             err |-> NoError]

SortedSeries(points) == [num_points |-> Len(points), points |-> points]

lttb_final_unsorted(st) ==
    IF st = None THEN [state |-> st, out |-> None]
    ELSE [state |-> st,
          out |-> Some(SortedSeries(lttb(st[1].series.points, st[1].resolution).points))]

\* The state, whose series is sorted in place, and the series returned.
lttb_final(st) ==
    IF st = None THEN [state |-> st, out |-> None]
    ELSE LET series == sort(st[1].series)
             downsampled == lttb(series.points, st[1].resolution)
         IN [state |-> Some([st[1] EXCEPT !.series = series]),
             out |-> Some(SortedSeries(downsampled.points))]

(***************************************************************************)
(* asap_trans, asap_final                                                  *)
(***************************************************************************)
asap_trans(st, ts, val, resolution) ==
    IF val = None \/ ts = None THEN st
    ELSE IF st = None
         THEN Some([ts |-> [ordered |-> TRUE, points |-> <<TSPoint(ts[1], val[1])>>],
                    resolution |-> resolution])
         ELSE Some([st[1] EXCEPT !.ts = add_point(@, TSPoint(ts[1], val[1]))])

\* The normalization of the time_series crate: the normal series, with the number of
\* its values, or the lack of data to extrapolate.
downsample_and_gapfill_to_normal_form(points, interval) ==
    IF Len(points) < 2 \/ interval <= 0 \/ Range(points) < interval
    THEN [ok |-> FALSE, start_ts |-> 0, step_interval |-> 0, values |-> 0]
    ELSE [ok |-> TRUE, start_ts |-> points[1].ts, step_interval |-> interval,
          values |-> Range(points) \div interval + 1]

\* The numbers of values asap_smooth may return for n values.
SmoothLengths(n) == 1 .. n

\* The bucket width asap_final asks the normalization for.
AsapInterval(points, resolution) ==
    IF Len(points) >= 2 * resolution
    THEN find_downsample_interval(points, resolution)
    ELSE [err |-> NoError, value |-> TruncDiv(Range(points), Len(points))]

\* The normal series of asap_final after its last value is dropped.
AsapNormal(st) ==
    LET points == sort(st[1].ts).points
        interval == AsapInterval(points, st[1].resolution)
    IN IF interval.err # NoError
       THEN [ok |-> FALSE, err |-> interval.err, start_ts |-> 0, step_interval |-> 0,
             values |-> 0]
       ELSE LET normal == downsample_and_gapfill_to_normal_form(points, interval.value)
            IN IF ~normal.ok
               THEN [ok |-> FALSE, err |-> ErrInsufficient, start_ts |-> 0,
                     step_interval |-> 0, values |-> 0]
               ELSE [ok |-> TRUE, err |-> NoError, start_ts |-> normal.start_ts,
                     step_interval |-> normal.step_interval,
                     values |-> normal.values - 1]

NormalTimeSeries(start_ts, step_interval, values) ==
    [start_ts |-> start_ts, step_interval |-> step_interval, values |-> values]

asap_final_untrimmed_count(st, smoothed) ==
    IF st = None THEN [out |-> None, err |-> NoError]
    ELSE LET normal == AsapNormal(st)
         IN IF ~normal.ok THEN [out |-> None, err |-> normal.err]
            ELSE [out |-> Some(NormalTimeSeries(
                              normal.start_ts,
                              TruncDiv(normal.step_interval * (normal.values + 1), smoothed),
                              smoothed)),
                  err |-> NoError]

\* The series returned, or the error reported, when asap_smooth returns `smoothed`
\* values.  The state is cloned: it is left as it was.
asap_final(st, smoothed) ==
    IF st = None THEN [out |-> None, err |-> NoError]
    ELSE LET normal == AsapNormal(st)
         IN IF ~normal.ok THEN [out |-> None, err |-> normal.err]
            ELSE [out |-> Some(NormalTimeSeries(
                              normal.start_ts,
                              TruncDiv(normal.step_interval * normal.values, smoothed),
                              smoothed)),
                  err |-> NoError]

(***************************************************************************)
(* Spec: one aggregated group, fed row by row and finalized once.          *)
(***************************************************************************)
NoCall == [op |-> "none", missing |-> FALSE, resolution |-> 0]

Call(op, missing, resolution) == [op |-> op, missing |-> missing, resolution |-> resolution]

Option(S) == {None} \cup {Some(x) : x \in S}

\* The points the state holds.
Points ==
    IF state = None THEN << >>
    ELSE IF agg = "asap" THEN state[1].ts.points ELSE state[1].series.points

\* A resolution argument that the call does not read: one value that is <= 2 and one
\* that is > 2 stand for all.
UnreadResolutions == {2, 3}

\* The (time, val, resolution) of a call of lttb_trans.  The time is not read when the
\* value is missing, the resolution is read only when a state is created.
LttbCalls(st) ==
    {<<time, Some(val), resolution>> :
        time \in Ts, val \in Vals,
        resolution \in IF st = None THEN Resolutions ELSE UnreadResolutions}
        \cup {<<0, None, resolution>> : resolution \in UnreadResolutions}

\* The (ts, val, resolution) of a call of asap_trans.  A row that lacks ts or val is
\* skipped before the rest is read: one row stands for each way of lacking one.
AsapCalls(st) ==
    {<<Some(ts), Some(val), resolution>> :
        ts \in Ts, val \in Vals,
        resolution \in IF st = None THEN Resolutions ELSE UnreadResolutions}
        \cup {<<row[1], row[2], resolution>> :
                 row \in {<<None, None>>, <<None, Some(0)>>, <<Some(0), None>>},
                 resolution \in UnreadResolutions}

Init ==
    /\ agg \in {"lttb", "asap"}
    /\ state = None
    /\ last = NoCall
    /\ err = NoError
    /\ out = None
    /\ pc = "feeding"

LttbTrans ==
    /\ agg = "lttb"
    /\ pc = "feeding"
    /\ \E call \in LttbCalls(state) :
          LET time == call[1]
              val == call[2]
              resolution == call[3]
              r == lttb_trans(state, time, val, resolution)
          IN /\ val # None => Len(Points) < MaxRows
             /\ state' = r.state
             /\ err' = r.err
             /\ pc' = IF r.err = NoError THEN pc ELSE "aborted"
             /\ last' = Call("lttb_trans", val = None, resolution)
    /\ UNCHANGED <<agg, out>>

LttbFinal ==
    /\ agg = "lttb"
    /\ pc = "feeding"
    /\ LET r == lttb_final(state)
       IN /\ state' = r.state
          /\ out' = r.out
    /\ pc' = "done"
    /\ last' = Call("lttb_final", FALSE, 0)
    /\ UNCHANGED <<agg, err>>

AsapTrans ==
    /\ agg = "asap"
    /\ pc = "feeding"
    /\ \E call \in AsapCalls(state) :
          LET ts == call[1]
              val == call[2]
              resolution == call[3]
          IN
          /\ (ts # None /\ val # None) => Len(Points) < MaxAsapRows
          /\ state' = asap_trans(state, ts, val, resolution)
          /\ last' = Call("asap_trans", ts = None \/ val = None, resolution)
    /\ UNCHANGED <<agg, err, out, pc>>

AsapFinal ==
    /\ agg = "asap"
    /\ pc = "feeding"
    /\ \E smoothed \in IF state # None /\ AsapNormal(state).ok
                       THEN SmoothLengths(AsapNormal(state).values) ELSE {0} :
          LET r == asap_final(state, smoothed)
          IN /\ out' = r.out
             /\ err' = r.err
             /\ pc' = IF r.err = NoError THEN "done" ELSE "aborted"
    /\ last' = Call("asap_final", FALSE, 0)
    /\ UNCHANGED <<agg, state>>

Next == LttbTrans \/ LttbFinal \/ AsapTrans \/ AsapFinal

Spec == Init /\ [][Next]_vars

(***************************************************************************)
(* Properties of the aggregates (Spec).                                    *)
(***************************************************************************)
Finalized(a) == agg = a /\ pc = "done" /\ state # None

\* lttb_final has run on more than `resolution` points, with resolution > 2.
LttbFinalDownsampled ==
    /\ Finalized("lttb")
    /\ 2 < state[1].resolution
    /\ state[1].resolution < Len(Points)

OutPoints == out[1].points

\* C2 as stated: for every valid LTTB input (points fed to the accumulator, sorted by
\* finalize, 2 < threshold < number of points) the timestamps of the output points
\* are strictly increasing from one output point to the next.
C2_StrictlyIncreasing ==
    LttbFinalDownsampled =>
        \A i \in 1 .. Len(OutPoints) - 1 : OutPoints[i].ts < OutPoints[i + 1].ts

\* C2 as amended: the selected input indices strictly increase and the timestamps of
\* the output points never decrease; two consecutive output points share a timestamp
\* only when the input holds several points with that timestamp.
C2_NonDecreasing ==
    LttbFinalDownsampled =>
        LET picked == LttbPicked(Points, state[1].resolution)
        IN /\ \A i \in 1 .. Len(picked) - 1 : picked[i] < picked[i + 1]
           /\ picked[Len(picked)] < Len(Points) - 1
           /\ \A i \in 1 .. Len(OutPoints) - 1 :
                 /\ OutPoints[i].ts <= OutPoints[i + 1].ts
                 /\ OutPoints[i].ts = OutPoints[i + 1].ts =>
                       Cardinality({j \in 1 .. Len(Points) :
                                       Points[j].ts = OutPoints[i].ts}) > 1

C2_Witness ==
    /\ LttbFinalDownsampled
    /\ Len(Points) = 4
    /\ \A i, j \in 1 .. 4 : i # j => Points[i].ts # Points[j].ts
    /\ Len(OutPoints) = 3
    /\ OutPoints[1].ts < OutPoints[2].ts
    /\ OutPoints[2].ts < OutPoints[3].ts

\* The points in the order of (ts, val): one order of feeding that depends on the
\* multiset alone.
RECURSIVE InsertByTsVal(_, _)
InsertByTsVal(sorted, p) ==
    IF sorted = << >> THEN <<p>>
    ELSE IF Head(sorted).ts < p.ts \/ (Head(sorted).ts = p.ts /\ Head(sorted).val <= p.val)
         THEN <<Head(sorted)>> \o InsertByTsVal(Tail(sorted), p)
         ELSE <<p>> \o sorted

RECURSIVE CanonicalOrder(_)
CanonicalOrder(points) ==
    IF points = << >> THEN << >>
    ELSE InsertByTsVal(CanonicalOrder(SubSeq(points, 1, Len(points) - 1)),
                       points[Len(points)])

RECURSIVE FeedLttb(_, _, _)
FeedLttb(st, points, resolution) ==
    IF points = << >> THEN st
    ELSE FeedLttb(lttb_trans(st, Head(points).ts, Some(Head(points).val), resolution).state,
                  Tail(points), resolution)

RECURSIVE FeedAsap(_, _, _)
FeedAsap(st, points, resolution) ==
    IF points = << >> THEN st
    ELSE FeedAsap(asap_trans(st, Some(Head(points).ts), Some(Head(points).val), resolution),
                  Tail(points), resolution)

\* What finalizing returns when the points the state holds are fed in the order
\* of (ts, val); the run under way has fed them in an order of its own.
OutOfCanonicalOrder ==
    IF agg = "lttb"
    THEN lttb_final(FeedLttb(None, CanonicalOrder(Points), state[1].resolution)).out
    ELSE asap_final(FeedAsap(None, CanonicalOrder(Points), state[1].resolution),
                    out[1].values).out

NoConflictingPairs ==
    \A i, j \in 1 .. Len(Points) :
        Points[i].ts = Points[j].ts => Points[i].val = Points[j].val

\* C3 as stated: feeding a multiset of (ts, val) pairs in any permutation and then
\* finalizing produces the identical output series, also when several pairs share a
\* timestamp and carry different values.
C3_OrderIndependent ==
    ((Finalized("lttb") \/ Finalized("asap")) /\ out # None) =>
        out = OutOfCanonicalOrder

\* C3 as amended: feeding a multiset of (ts, val) pairs in any permutation and then
\* finalizing produces the identical output series, provided that pairs that share
\* a timestamp carry the same value.
C3_OrderIndependentNoConflict ==
    ((Finalized("lttb") \/ Finalized("asap")) /\ out # None /\ NoConflictingPairs) =>
        out = OutOfCanonicalOrder

C3_Witness ==
    /\ Finalized("asap")
    /\ out # None
    /\ NoConflictingPairs
    /\ Len(Points) = 3
    /\ ~state[1].ts.ordered
    /\ Points # CanonicalOrder(Points)
    /\ out = OutOfCanonicalOrder

\* C4 as stated: every call of lttb_trans with resolution <= 2 reports the
\* configuration error, whether the value of the row is present or missing and
\* whether or not a state already exists.
C4_EveryLowResolutionCallFails ==
    (last.op = "lttb_trans" /\ last.resolution <= 2) => err = ErrResolution

\* C4 as amended: a call of lttb_trans with resolution <= 2 reports the
\* configuration error when the value of the row is present and no state exists yet,
\* and no state is created then, so that every state holds a resolution > 2; a call
\* whose value is missing, or that finds a state, reports no error.
C4_CreationValidated ==
    agg = "lttb" =>
        /\ state # None => state[1].resolution > 2
        /\ (last.op = "lttb_trans" /\ last.resolution <= 2) =>
              IF ~last.missing /\ state = None
              THEN err = ErrResolution /\ pc = "aborted"
              ELSE err = NoError
        /\ err # NoError =>
              err = ErrResolution /\ state = None /\ last.resolution <= 2

C4_Witness ==
    /\ agg = "lttb"
    /\ last = Call("lttb_trans", FALSE, 2)
    /\ err = ErrResolution
    /\ state = None

\* C6: a row-feed call whose value is missing (or, for ASAP, whose timestamp is
\* missing) is a no-op that reports no error: the state returned is the state passed
\* in, with the same points in the same order and the same resolution, and still
\* absent if it was absent before the call.
C6_NullSkipping ==
    [][(last'.op \in {"lttb_trans", "asap_trans"} /\ last'.missing) =>
          (state' = state /\ err' = NoError /\ out' = out /\ pc' = pc)]_vars

C6_Witness ==
    /\ agg = "lttb"
    /\ last = Call("lttb_trans", TRUE, 2)
    /\ pc = "feeding"
    /\ err = NoError
    /\ state # None
    /\ Len(Points) = 2

\* asap_final has taken the dense branch on a state whose median gap is not positive.
DenseWithoutPositiveMedian ==
    /\ agg = "asap"
    /\ last.op = "asap_final"
    /\ state # None
    /\ state[1].resolution >= 1
    /\ Len(Points) >= 2 * state[1].resolution
    /\ LET diffs == Diffs(SortByTs(Points))
       IN At(diffs, Len(diffs) \div 2) <= 0

\* C8: when asap_final takes the dense branch and the median of the gaps is not
\* positive, this is detected before the division candidate / median and reported as
\* an error of its own, distinct from the lack of data; the division by the zero
\* median is never executed.
C8_MedianDetected ==
    DenseWithoutPositiveMedian =>
        /\ pc = "aborted"
        /\ err \notin {NoError, ErrInsufficient, ErrDivZero}

FnPoints == state[1].series.points

FnInit ==
    /\ agg = "fn"
    /\ state = Some([series |-> new_explicit_series])
    /\ last = NoCall
    /\ err = NoError
    /\ out = None
    /\ pc = "feeding"

FnAddPoint ==
    /\ pc = "feeding"
    /\ Len(FnPoints) < FnMaxLen
    /\ \E ts \in FnTs, val \in FnVals :
          /\ FnPoints # << >> => ts >= FnPoints[Len(FnPoints)].ts
          /\ state' = Some([series |-> add_point(state[1].series, TSPoint(ts, val))])
    /\ UNCHANGED <<agg, last, err, out, pc>>

FnLttb ==
    /\ pc = "feeding"
    /\ \E threshold \in 0 .. FnMaxLen :
          /\ last' = Call("lttb", FALSE, threshold)
          /\ out' = Some(lttb(FnPoints, threshold))
    /\ pc' = "done"
    /\ UNCHANGED <<agg, state, err>>

FnFindDownsampleInterval ==
    /\ pc = "feeding"
    /\ \E resolution \in 0 .. FnMaxLen :
          /\ last' = Call("find_downsample_interval", FALSE, resolution)
          /\ out' = Some(find_downsample_interval(FnPoints, resolution))
    /\ pc' = "done"
    /\ UNCHANGED <<agg, state, err>>

FnNext == FnAddPoint \/ FnLttb \/ FnFindDownsampleInterval

SpecFn == FnInit /\ [][FnNext]_vars

(***************************************************************************)
(* Properties of lttb and find_downsample_interval (SpecFn).               *)
(***************************************************************************)
FnCalled(op) == pc = "done" /\ last.op = op

FnResult == out[1]

\* The threshold a call of lttb was given is in last.resolution.
LttbDownsamples ==
    FnCalled("lttb") /\ 2 < last.resolution /\ last.resolution < Len(FnPoints)

\* C1: for sorted data and 2 < threshold < len(data), lttb returns exactly threshold
\* points, the first being data[0] and the last data[len - 1].
C1_LengthAndEndpoints ==
    LttbDownsamples =>
        /\ ~FnResult.panic
        /\ Len(FnResult.points) = last.resolution
        /\ FnResult.points[1] = FnPoints[1]
        /\ FnResult.points[Len(FnResult.points)] = FnPoints[Len(FnPoints)]

C1_Witness ==
    /\ LttbDownsamples
    /\ Len(FnPoints) = 5
    /\ last.resolution = 4
    /\ Len(FnResult.points) = 4
    /\ FnPoints[1] # FnPoints[5]

\* C5: lttb with threshold = 0 or threshold >= len(data) returns data unchanged,
\* element for element and in the same order.
C5_Passthrough ==
    (FnCalled("lttb") /\ (last.resolution = 0 \/ last.resolution >= Len(FnPoints))) =>
        /\ ~FnResult.panic
        /\ FnResult.points = FnPoints

C5_Witness ==
    /\ FnCalled("lttb")
    /\ last.resolution = 0
    /\ Len(FnPoints) = 3
    /\ FnResult.points = FnPoints

Uniform(points, d) ==
    \A i \in 1 .. Len(points) - 1 : points[i + 1].ts - points[i].ts = d

\* C7: on a sorted series of n >= 2 points with uniform spacing d > 0 and a
\* resolution r >= 1, find_downsample_interval takes d as the median gap (the
\* element at index len / 2 of the sorted gaps) and returns
\* ((n - 1) * d / r) / d * d with truncating division, a multiple of d.
C7_UniformInterval ==
    \A d \in 1 .. FnMaxTs + 1 :
        (/\ FnCalled("find_downsample_interval")
         /\ Len(FnPoints) >= 2
         /\ last.resolution >= 1
         /\ Uniform(FnPoints, d)) =>
            /\ At(Diffs(FnPoints), Len(Diffs(FnPoints)) \div 2) = d
            /\ FnResult.err = NoError
            /\ FnResult.value
                  = ((((Len(FnPoints) - 1) * d) \div last.resolution) \div d) * d
            /\ FnResult.value % d = 0

C7_Witness ==
    /\ FnCalled("find_downsample_interval")
    /\ Len(FnPoints) = 4
    /\ Uniform(FnPoints, 1)
    /\ last.resolution = 2
    /\ FnResult = [err |-> NoError, value |-> 1]

\* floor(i * every) + 1 for every = (len - 2) / (threshold - 2): the q + 1 with
\* q <= i * every < q + 1.
FloorBound(i, len, threshold) ==
    1 + CHOOSE q \in 0 .. i * len :
            /\ q * (threshold - 2) <= i * (len - 2)
            /\ i * (len - 2) < (q + 1) * (threshold - 2)

\* The indices of bucket i.
BucketIndices(data, i, threshold) ==
    {m \in 0 .. Len(data) - 1 :
        /\ FloorBound(i, Len(data), threshold) <= m
        /\ m < FloorBound(i + 1, Len(data), threshold)}

RECURSIVE SumOver(_, _, _)
SumOver(data, indices, field) ==
    IF indices = {} THEN 0
    ELSE LET m == CHOOSE x \in indices : TRUE
         IN At(data, m)[field] + SumOver(data, indices \ {m}, field)

\* The quotient of sum by n > 0 that truncates toward zero.
TruncatedAverage(sum, n) ==
    CHOOSE q \in (0 - Abs(sum)) .. Abs(sum) :
        /\ Abs(q) * n <= Abs(sum)
        /\ Abs(sum) < (Abs(q) + 1) * n
        /\ (sum >= 0 => q >= 0)
        /\ (sum <= 0 => q <= 0)

\* n times twice the area 0.5 * |(a.ts - avg_x) * (p.val - a.val)
\* - (a.ts - p.ts) * (avg_y - a.val)|, for the average (avg_x, avg_y) of the n points
\* of bucket i + 1.
ScaledArea(data, i, threshold, a, p) ==
    LET next == BucketIndices(data, i + 1, threshold)
        n == Cardinality(next)
        avg_x == TruncatedAverage(SumOver(data, next, "ts"), n)
        sum_y == SumOver(data, next, "val")
    IN Abs((a.ts - avg_x) * (p.val - a.val) * n - (a.ts - p.ts) * (sum_y - a.val * n))

WorkedExample ==
    <<TSPoint(0, 0), TSPoint(1, 10), TSPoint(2, 0), TSPoint(3, 10), TSPoint(4, 0)>>

\* C9: with 2 < threshold < len(data), the point appended for each bucket
\* i in 0 .. threshold - 3 is the lowest-index point of the bucket's index range
\* [floor(i * every) + 1, floor((i + 1) * every) + 1) that maximizes the triangle
\* area with the previously selected point (data[0] for i = 0) and the average of
\* the next bucket (truncating for ts); for timestamps [0,1,2,3,4], values
\* [0,10,0,10,0] and threshold 3 the output is (0,0), (1,10), (4,0).
C9_BucketSelection ==
    LttbDownsamples =>
        LET data == FnPoints
            threshold == last.resolution
            selected == [i \in 1 .. threshold - 1 |-> FnResult.points[i]]
        IN /\ selected[1] = At(data, 0)
           /\ \A i \in 0 .. threshold - 3 :
                 LET a == selected[i + 1]
                     bucket == BucketIndices(data, i, threshold)
                     best == CHOOSE b \in bucket :
                                \A m \in bucket :
                                    /\ ScaledArea(data, i, threshold, a, At(data, m))
                                          <= ScaledArea(data, i, threshold, a, At(data, b))
                                    /\ m < b =>
                                          ScaledArea(data, i, threshold, a, At(data, m))
                                             < ScaledArea(data, i, threshold, a, At(data, b))
                 IN /\ bucket # {}
                    /\ selected[i + 2] = At(data, best)
           /\ (data = WorkedExample /\ threshold = 3) =>
                 FnResult.points = <<TSPoint(0, 0), TSPoint(1, 10), TSPoint(4, 0)>>

C9_Witness ==
    /\ LttbDownsamples
    /\ FnPoints = WorkedExample
    /\ last.resolution = 3
    /\ FnResult.points = <<TSPoint(0, 0), TSPoint(1, 10), TSPoint(4, 0)>>

====
